---- MODULE Spec2Model ----
(***************************************************************************)
(* Prime-field element type generated by impl_Fp! and its serializer       *)
(* (ff/src/fields/macros.rs).                                              *)
(*                                                                         *)
(* A big integer is a little-endian tuple of Limbs limbs of WordBits bits. *)
(* The limb width is scaled down from 64 bits so that every operand of     *)
(* every modulus can be enumerated; all limb arithmetic wraps at the       *)
(* scaled width exactly where the source wraps at 64 bits.  The byte is    *)
(* scaled with the limb: a limb is written and read as one byte.           *)
(***************************************************************************)
EXTENDS Integers, Sequences, FiniteSets, TLC

\* ---------------------------------------------------------------- widths
WordBits == 3
Limbs == 2

ByteBits == WordBits
Base == 2 ^ WordBits
ByteBase == 2 ^ ByteBits
Capacity == Base ^ Limbs
LimbIdx == 1 .. Limbs

\* ------------------------------------------------- fixed-width integers
\* value of a little-endian limb sequence
RECURSIVE LimbsValueFrom(_, _)
LimbsValueFrom(s, i) == IF i > Len(s) THEN 0 ELSE s[i] + Base * LimbsValueFrom(s, i + 1)

LimbsValue(s) == LimbsValueFrom(s, 1)

\* $BigInteger::from(n): n written into `len` limbs (truncating)
RECURSIVE ToLimbsN(_, _)
ToLimbsN(n, len) == IF len = 0 THEN << >> ELSE << n % Base >> \o ToLimbsN(n \div Base, len - 1)

BigInt(n) == ToLimbsN(n, Limbs)

BigZero == BigInt(0)

big_is_zero(a) == \A i \in LimbIdx : a[i] = 0

big_is_even(a) == a[1] % 2 = 0

\* Ord for BigInteger: compare from the most significant limb
RECURSIVE big_lt_from(_, _, _)
big_lt_from(a, b, i) ==
    IF i = 0 THEN FALSE
    ELSE IF a[i] < b[i] THEN TRUE
    ELSE IF a[i] > b[i] THEN FALSE
    ELSE big_lt_from(a, b, i - 1)

big_lt(a, b) == big_lt_from(a, b, Limbs)

\* adc!(a, b, carry): <<low limb, carry out>>
adc(a, b, carry) == << (a + b + carry) % Base, (a + b + carry) \div Base >>

\* sbb!(a, b, borrow): <<low limb, borrow out>>
sbb(a, b, borrow) ==
    LET tmp == Base + a - b - borrow
    IN  << tmp % Base, IF tmp \div Base = 0 THEN 1 ELSE 0 >>

\* mac_with_carry!(a, b, c, carry): a + b * c + carry as <<low limb, carry out>>
mac_with_carry(a, b, c, carry) ==
    LET tmp == a + b * c + carry
    IN  << tmp % Base, tmp \div Base >>

\* BigInteger::add_nocarry: limb-wise adc chain, the carry out of the top limb is dropped
RECURSIVE add_nocarry_from(_, _, _, _)
add_nocarry_from(a, b, i, carry) ==
    IF i > Limbs THEN a
    ELSE LET r == adc(a[i], b[i], carry)
         IN  add_nocarry_from([a EXCEPT ![i] = r[1]], b, i + 1, r[2])

add_nocarry(a, b) == add_nocarry_from(a, b, 1, 0)

\* sub_noborrow: limb-wise sbb chain, the borrow out of the top limb is dropped
RECURSIVE sub_noborrow_from(_, _, _, _)
sub_noborrow_from(a, b, i, borrow) ==
    IF i > Limbs THEN a
    ELSE LET r == sbb(a[i], b[i], borrow)
         IN  sub_noborrow_from([a EXCEPT ![i] = r[1]], b, i + 1, r[2])

sub_noborrow(a, b) == sub_noborrow_from(a, b, 1, 0)

\* BigInteger::mul2: shift left by one bit, the top bit is dropped
RECURSIVE mul2_from(_, _, _)
mul2_from(a, i, last) ==
    IF i > Limbs THEN a
    ELSE mul2_from([a EXCEPT ![i] = ((2 * a[i]) % Base) + last], i + 1, a[i] \div (Base \div 2))

mul2(a) == mul2_from(a, 1, 0)

\* BigInteger::div2: shift right by one bit, from the top limb down
RECURSIVE div2_from(_, _, _)
div2_from(a, i, t) ==
    IF i = 0 THEN a
    ELSE div2_from([a EXCEPT ![i] = (a[i] \div 2) + t * (Base \div 2)], i - 1, a[i] % 2)

div2(a) == div2_from(a, Limbs, 0)

\* ---------------------------------------------------------- parameters
IsPrime(n) == n > 1 /\ \A d \in 2 .. (n - 1) : d * d > n \/ n % d # 0

\* the field instantiations: every odd prime whose top limb is in use
Moduli == { m \in 3 .. (Capacity - 1) : m % 2 = 1 /\ m >= Capacity \div Base /\ IsPrime(m) }

MODULUS(m) == BigInt(m)

RECURSIVE BitLen(_)
BitLen(n) == IF n = 0 THEN 0 ELSE 1 + BitLen(n \div 2)

MODULUS_BITS(m) == BitLen(m)

REPR_SHAVE_BITS(m) == WordBits * Limbs - MODULUS_BITS(m)

\* R = 2^(WordBits * Limbs) mod M, R2 = R^2 mod M, INV = -M^{-1} mod 2^WordBits
RModM(m) == Capacity % m

ParamR(m) == BigInt(RModM(m))

ParamR2(m) == BigInt((RModM(m) * RModM(m)) % m)

ParamINV(m) == CHOOSE k \in 0 .. (Base - 1) : (k * (m % Base) + 1) % Base = 0

\* ------------------------------------------------------ Montgomery engine
\* one row of the schoolbook product: r[j + i] = mac(r[j + i], a[i], b[j], carry)
RECURSIVE mul_row(_, _, _, _, _, _)
mul_row(r, a, b, i, j, carry) ==
    IF j > Limbs THEN [r EXCEPT ![Limbs + i] = carry]
    ELSE LET t == mac_with_carry(r[j + i - 1], a[i], b[j], carry)
         IN  mul_row([r EXCEPT ![j + i - 1] = t[1]], a, b, i, j + 1, t[2])

RECURSIVE mul_rows(_, _, _, _)
mul_rows(r, a, b, i) ==
    IF i > Limbs THEN r ELSE mul_rows(mul_row(r, a, b, i, 1, 0), a, b, i + 1)

\* the inner loop of a reduction round: r[j + i] = mac(r[j + i], k, modulus[j], carry)
\* for j >= 1; yields <<r, carry>>
RECURSIVE red_row(_, _, _, _, _, _)
red_row(r, k, m, i, j, carry) ==
    IF j > Limbs THEN << r, carry >>
    ELSE LET t == mac_with_carry(r[j + i - 1], k, m[j], carry)
         IN  red_row([r EXCEPT ![j + i - 1] = t[1]], k, m, i, j + 1, t[2])

\* the Montgomery reduction rounds; carry2 is the running overflow, and the
\* value it holds after the last round is discarded
RECURSIVE red_rounds(_, _, _, _, _)
red_rounds(r, m, inv, i, carry2) ==
    IF i > Limbs THEN r
    ELSE LET k   == (r[i] * inv) % Base
             c0  == mac_with_carry(r[i], k, m[1], 0)[2]
             row == red_row(r, k, m, i, 2, c0)
             top == adc(row[1][Limbs + i], carry2, row[2])
         IN  red_rounds([row[1] EXCEPT ![Limbs + i] = top[1]], m, inv, i + 1, top[2])

mul_without_reduce(a, b, m, inv) ==
    LET r0 == ToLimbsN(0, 2 * Limbs)
        r  == red_rounds(mul_rows(r0, a, b, 1), m, inv, 1, 0)
    IN  SubSeq(r, Limbs + 1, 2 * Limbs)

\* true when self < modulus, compared from the top limb
RECURSIVE const_is_valid_from(_, _, _)
const_is_valid_from(a, m, i) ==
    IF i = 0 THEN FALSE
    ELSE IF a[i] < m[i] THEN TRUE
    ELSE IF a[i] > m[i] THEN FALSE
    ELSE const_is_valid_from(a, m, i - 1)

const_is_valid(a, m) == const_is_valid_from(a, m, Limbs)

const_reduce(a, m) == IF ~const_is_valid(a, m) THEN sub_noborrow(a, m) ELSE a

const_mul(a, b, m, inv) == const_reduce(mul_without_reduce(a, b, m, inv), m)


\* ---------------------------------------------------------- field element
\* An element is the limb tuple of its stored (Montgomery-form) value.
Some(v) == [tag |-> "Some", val |-> v]

None == [tag |-> "None", val |-> << >>]

is_valid(a, m) == big_lt(a, MODULUS(m))

\* mutant: the conditional subtraction is left out
reduce_never(a, m) == a

reduce(a, m) == IF ~is_valid(a, m) THEN sub_noborrow(a, MODULUS(m)) ELSE a

zero == BigZero

is_zero(a) == big_is_zero(a)

one(m) == ParamR(m)

double_in_place(a, m) == reduce(mul2(a), m)

neg(a, m) == IF ~is_zero(a) THEN sub_noborrow(MODULUS(m), a) ELSE a

\* mutant: the sum is left unreduced
add_assign_unreduced(a, b, m) == add_nocarry(a, b)

add_assign(a, b, m) == reduce(add_nocarry(a, b), m)

sub_assign(a, b, m) ==
    sub_noborrow(IF big_lt(a, b) THEN add_nocarry(a, MODULUS(m)) ELSE a, b)

\* mul_assign: the engine above followed by one conditional subtraction
mul_assign(a, b, m) == reduce(mul_without_reduce(a, b, MODULUS(m), ParamINV(m)), m)

from_repr(r, m) ==
    IF is_zero(r) THEN Some(r)
    ELSE IF is_valid(r, m) THEN Some(mul_assign(r, ParamR2(m), m))
    ELSE None

\* into_repr: Montgomery reduction of the stored value against the unit operand
into_repr(a, m) == mul_without_reduce(a, BigInt(1), MODULUS(m), ParamINV(m))

const_from_repr(r, m) ==
    IF big_is_zero(r) THEN r ELSE const_mul(r, ParamR2(m), MODULUS(m), ParamINV(m))

\* ---------------------------------------------------------------- inverse
\* the locals of the binary extended Euclid loop
inv_init(a, m) == [u |-> a, v |-> MODULUS(m), b |-> ParamR2(m), c |-> zero]

inv_running(s) == s.u # BigInt(1) /\ s.v # BigInt(1)

\* halve b (or c) modulo M: add the modulus first when it is odd
inv_halve(e, m) == IF big_is_even(e) THEN div2(e) ELSE div2(add_nocarry(e, MODULUS(m)))

inv_halve_u(s, m) == [s EXCEPT !.u = div2(s.u), !.b = inv_halve(s.b, m)]

inv_halve_v(s, m) == [s EXCEPT !.v = div2(s.v), !.c = inv_halve(s.c, m)]

\* mutant: the operands of the comparison are exchanged
inv_subtract_flipped(s, m) ==
    IF big_lt(s.u, s.v)
    THEN [s EXCEPT !.u = sub_noborrow(s.u, s.v), !.b = sub_assign(s.b, s.c, m)]
    ELSE [s EXCEPT !.v = sub_noborrow(s.v, s.u), !.c = sub_assign(s.c, s.b, m)]

inv_subtract(s, m) ==
    IF big_lt(s.v, s.u)
    THEN [s EXCEPT !.u = sub_noborrow(s.u, s.v), !.b = sub_assign(s.b, s.c, m)]
    ELSE [s EXCEPT !.v = sub_noborrow(s.v, s.u), !.c = sub_assign(s.c, s.b, m)]

\* one round of the outer loop
RECURSIVE inv_round(_, _)
inv_round(s, m) ==
    IF big_is_even(s.u) THEN inv_round(inv_halve_u(s, m), m)
    ELSE IF big_is_even(s.v) THEN inv_round(inv_halve_v(s, m), m)
    ELSE inv_subtract(s, m)

RECURSIVE inv_loop(_, _)
inv_loop(s, m) == IF inv_running(s) THEN inv_loop(inv_round(s, m), m) ELSE s

inv_result(s) == IF s.u = BigInt(1) THEN Some(s.b) ELSE Some(s.c)

\* mutant: the zero test yields a silent zero instead of None
inverse_silent_zero(a, m) ==
    IF is_zero(a) THEN Some(zero) ELSE inv_result(inv_loop(inv_init(a, m), m))

inverse(a, m) == IF is_zero(a) THEN None ELSE inv_result(inv_loop(inv_init(a, m), m))

\* div / div_assign: multiply by other.inverse().unwrap(); unwrap panics on None
Panic == [tag |-> "Panic", val |-> << >>]

Unit == [tag |-> "Unit", val |-> << >>]

div(a, b, m) ==
    LET i == inverse(b, m)
    IN  IF i.tag = "None" THEN Panic ELSE Some(mul_assign(a, i.val, m))

\* ------------------------------------------------------------------ codec
Ok(v) == [tag |-> "Ok", val |-> v]

Err(e) == [tag |-> e, val |-> << >>]

RECURSIVE BitOr(_, _)
BitOr(a, b) ==
    IF a = 0 THEN b
    ELSE IF b = 0 THEN a
    ELSE (IF a % 2 = 1 \/ b % 2 = 1 THEN 1 ELSE 0) + 2 * BitOr(a \div 2, b \div 2)

BytesPerLimb == WordBits \div ByteBits

\* $byte_size = $limbs * 8
BYTE_SIZE == Limbs * BytesPerLimb

RECURSIVE Zeros(_)
Zeros(n) == IF n = 0 THEN << >> ELSE << 0 >> \o Zeros(n - 1)

\* BigInteger::write: every limb as its little-endian bytes, lowest limb first
RECURSIVE limb_to_bytes(_, _)
limb_to_bytes(l, n) ==
    IF n = 0 THEN << >> ELSE << l % ByteBase >> \o limb_to_bytes(l \div ByteBase, n - 1)

RECURSIVE big_write_from(_, _)
big_write_from(a, i) ==
    IF i > Len(a) THEN << >>
    ELSE limb_to_bytes(a[i], BytesPerLimb) \o big_write_from(a, i + 1)

big_write(a) == big_write_from(a, 1)

\* BigInteger::read: BYTE_SIZE bytes back into limbs
RECURSIVE limb_from_bytes(_, _, _)
limb_from_bytes(bytes, first, n) ==
    IF n = 0 THEN 0
    ELSE bytes[first] + ByteBase * limb_from_bytes(bytes, first + 1, n - 1)

RECURSIVE big_read_from(_, _)
big_read_from(bytes, k) ==
    IF k > Limbs THEN << >>
    ELSE << limb_from_bytes(bytes, (k - 1) * BytesPerLimb + 1, BytesPerLimb) >>
         \o big_read_from(bytes, k + 1)

big_read(bytes) == big_read_from(bytes, 1)

\* ToBytes::write and FromBytes::read of the element
write(a, m) == big_write(into_repr(a, m))

read(bytes, m) ==
    LET f == from_repr(big_read(bytes), m)
    IN  IF f.tag = "Some" THEN Ok(f.val) ELSE Err("IoError")

size_in_bits(m) == MODULUS_BITS(m)

\* ark_serialize::buffer_bit_byte_size: <<bits, bytes>> of the smallest byte buffer
buffer_byte_size(bits) == (bits + ByteBits - 1) \div ByteBits

buffer_bit_byte_size(bits) == << buffer_byte_size(bits) * ByteBits, buffer_byte_size(bits) >>

\* Flags: len bits, kept in the top bits of a byte
u8_bitmask(f) == f.val * 2 ^ (ByteBits - f.len)

from_u8_remove_flags(byte, len) ==
    [flags |-> byte \div 2 ^ (ByteBits - len), byte |-> byte % 2 ^ (ByteBits - len)]

\* mutant: the space check is left out
serialize_unchecked(a, f, m) ==
    LET size   == buffer_bit_byte_size(size_in_bits(m))
        bytes  == write(a, m)
        marked == [bytes EXCEPT ![size[2]] = BitOr(@, u8_bitmask(f))]
    IN  [ret |-> Ok(<< >>), out |-> SubSeq(marked, 1, size[2])]

\* yields the result and the bytes handed to the writer
serialize_with_flags(a, f, m) ==
    LET size == buffer_bit_byte_size(size_in_bits(m))
    IN  IF f.len > size[1] - MODULUS_BITS(m)
        THEN [ret |-> Err("NotEnoughSpace"), out |-> << >>]
        ELSE LET bytes  == write(a, m)
                 marked == [bytes EXCEPT ![size[2]] = BitOr(@, u8_bitmask(f))]
             IN  [ret |-> Ok(<< >>), out |-> SubSeq(marked, 1, size[2])]

\* yields the result and the number of bytes asked of the reader
deserialize_with_flags(rd, len, m) ==
    LET size == buffer_bit_byte_size(size_in_bits(m))
    IN  IF len > size[1] - MODULUS_BITS(m)
        THEN [ret |-> Err("NotEnoughSpace"), asked |-> 0]
        ELSE IF Len(rd) < size[2]
        THEN [ret |-> Err("IoError"), asked |-> size[2]]
        ELSE LET masked  == SubSeq(rd, 1, size[2]) \o Zeros(BYTE_SIZE - size[2])
                 rf      == from_u8_remove_flags(masked[size[2]], len)
                 cleared == [masked EXCEPT ![size[2]] = rf.byte]
                 e       == read(cleared, m)
             IN  [ret   |-> IF e.tag = "Ok" THEN Ok(<< e.val, rf.flags >>) ELSE e,
                  asked |-> size[2]]

deserialize(rd, m) ==
    LET size == buffer_bit_byte_size(size_in_bits(m))
    IN  IF Len(rd) < size[2]
        THEN [ret |-> Err("IoError"), asked |-> size[2]]
        ELSE [ret   |-> read(SubSeq(rd, 1, size[2]) \o Zeros(BYTE_SIZE - size[2]), m),
              asked |-> size[2]]

\* u8 &
RECURSIVE BitAnd(_, _)
BitAnd(a, b) ==
    IF a = 0 \/ b = 0 THEN 0
    ELSE (IF a % 2 = 1 /\ b % 2 = 1 THEN 1 ELSE 0) + 2 * BitAnd(a \div 2, b \div 2)

\* << and >> on an integer of `width` bits. A shift by the width or more
\* overflows: a build with overflow checks panics there, a build without them
\* shifts by the amount modulo the width.
shl(v, n, width) == (v * 2 ^ (n % width)) % 2 ^ width

shr(v, n, width) == v \div 2 ^ (n % width)

\* *b &= m over the bytes of the top limb
RECURSIVE mask_bytes(_, _, _)
mask_bytes(bs, ms, i) ==
    IF i > Len(bs) THEN << >>
    ELSE << BitAnd(bs[i], ms[i]) >> \o mask_bytes(bs, ms, i + 1)

\* overflow_checks: whether the build panics on arithmetic overflow
from_random_bytes_with_flags(bytes, m, overflow_checks) ==
    LET shave    == REPR_SHAVE_BITS(m)
        k        == shave % ByteBits
        copied   == IF Len(bytes) >= BYTE_SIZE
                    THEN SubSeq(bytes, 1, BYTE_SIZE)
                    ELSE bytes \o Zeros(BYTE_SIZE - Len(bytes))
        mask     == shr(Base - 1, shave, WordBits)
        flags_byte_position == (BytesPerLimb - 1) - (shave \div ByteBits)
        flags_mask == shl(shl(1, k, ByteBits) - 1, ByteBits - k, ByteBits)
        low      == (Limbs - 1) * BytesPerLimb
        last_bytes == SubSeq(copied, low + 1, BYTE_SIZE)
        flags    == IF flags_byte_position >= 0
                    THEN BitAnd(last_bytes[flags_byte_position + 1], flags_mask)
                    ELSE 0
        result_bytes == SubSeq(copied, 1, low)
                        \o mask_bytes(last_bytes, limb_to_bytes(mask, BytesPerLimb), 1)
        f        == deserialize(result_bytes, m).ret
        overflow == \/ shave >= WordBits
                    \/ flags_byte_position < 0
                    \/ ByteBits - k >= ByteBits
    IN  IF overflow_checks /\ overflow THEN Panic
        ELSE IF f.tag = "Ok" THEN Some(<< f.val, flags >>)
        ELSE None

\* ---------------------------------------------------------------- strings
\* A string is a tuple of characters, a character a one-letter string.
DigitChars == << "0", "1", "2", "3", "4", "5", "6", "7", "8", "9" >>

\* char::to_digit(10): the digit, or -1 for None
to_digit(c) ==
    IF \E d \in 1 .. 10 : DigitChars[d] = c
    THEN (CHOOSE d \in 1 .. 10 : DigitChars[d] = c) - 1
    ELSE -1

\* From<integer>: zero-extend to the field width and enter Montgomery form
from_int(n, m) ==
    LET f == from_repr(BigInt(n), m)
    IN  IF f.tag = "Some" THEN f ELSE Panic

\* the loop of from_str over the first i characters: Ok with the accumulator,
\* or the early return taken at the first character that caused one
RECURSIVE from_str_loop(_, _, _, _)
from_str_loop(s, i, ten, m) ==
    IF i = 0 THEN Ok(zero)
    ELSE LET before == from_str_loop(s, i - 1, ten, m)
             first_digit == i = 1
             c == to_digit(s[i])
         IN  IF before.tag # "Ok" THEN before
             ELSE IF c = -1 THEN Err("Err")
             ELSE IF first_digit /\ c = 0 THEN Err("Err")
             ELSE LET digit == from_int(c, m)
                  IN  IF digit.tag = "Panic" THEN Panic
                      ELSE Ok(add_assign(mul_assign(before.val, ten, m), digit.val, m))

from_str(s, m) ==
    IF s = << >> THEN Err("Err")
    ELSE IF s = << "0" >> THEN Ok(zero)
    ELSE LET ten == from_int(10, m)
         IN  IF ten.tag = "Panic" THEN Panic
             ELSE LET res == from_str_loop(s, Len(s), ten.val, m)
                  IN  IF res.tag # "Ok" THEN res
                      ELSE IF ~is_valid(res.val, m) THEN Err("Err")
                      ELSE Ok(res.val)

\* the decimal digits of n, most significant first
RECURSIVE Decimal(_)
Decimal(n) ==
    IF n < 10 THEN << DigitChars[n + 1] >>
    ELSE Decimal(n \div 10) \o << DigitChars[(n % 10) + 1] >>

\* Display: the format string is stringify!($Fp"({})"), the type name and the
\* quoted, parenthesised rendering of into_repr()
display(a, m) ==
    << "F", "p", " ", "\"", "(" >> \o Decimal(LimbsValue(into_repr(a, m))) \o << ")", "\"" >>

\* ------------------------------------------------------------------ state
\* p      the modulus of the field instantiation
\* x      the receiver (self); for from_repr the integer handed in
\* y      the other operand
\* in0    the receiver as it was when the operation was called
\* pc     "ready", the operation that has returned, or "inverse_loop"
\* ret    the value returned
\* loc    the locals u, v, b, c of a running inverse()
\* wire   the bytes in the writer / reader, oldest first
\* win    the wire as it was when the operation was called
\* flg    the flags handed to (or the flag type asked of) the codec
\* prev   the operation that had returned when this one was called
\* str    the text handed to from_str or produced by Display
\* rounds the passes of the outer loop that a running inverse() has completed
VARIABLES p, x, y, in0, pc, ret, loc, wire, win, flg, prev, str, rounds

vars == << p, x, y, in0, pc, ret, loc, wire, win, flg, prev, str, rounds >>

ioVars == << wire, win, flg, prev, str >>

NoFlags == [len |-> 0, val |-> 0]

AllBigInts == { BigInt(n) : n \in 0 .. (Capacity - 1) }

Elements(m) == { BigInt(n) : n \in 0 .. (m - 1) }

NoLocals == [u |-> zero, v |-> zero, b |-> zero, c |-> zero]

Init ==
    /\ p \in Moduli
    /\ x \in AllBigInts
    /\ y = zero
    /\ in0 = x
    /\ pc = "ready"
    /\ ret = Unit
    /\ loc = NoLocals
    /\ wire = << >>
    /\ win = << >>
    /\ flg = NoFlags
    /\ prev = "ready"
    /\ str = << >>
    /\ rounds = 0

\* an element operation is called on a receiver that is an element
Callable == pc = "ready" /\ is_valid(x, p)

\* from_repr of the integer in x, or of the integer into_repr has just returned
FromRepr ==
    /\ pc \in {"ready", "into_repr"}
    /\ ret' = from_repr(IF pc = "ready" THEN x ELSE ret.val, p)
    /\ in0' = x
    /\ prev' = pc
    /\ pc' = "from_repr"
    /\ UNCHANGED << p, x, y, loc, wire, win, flg, str, rounds >>

IntoRepr ==
    /\ Callable
    /\ ret' = Some(into_repr(x, p))
    /\ in0' = x
    /\ prev' = pc
    /\ pc' = "into_repr"
    /\ UNCHANGED << p, x, y, loc, wire, win, flg, str, rounds >>

AddAssign ==
    /\ Callable
    /\ \E b \in Elements(p) : y' = b /\ x' = add_assign(x, b, p)
    /\ in0' = x
    /\ pc' = "add_assign"
    /\ UNCHANGED << p, ret, loc, rounds >>
    /\ UNCHANGED ioVars

SubAssign ==
    /\ Callable
    /\ \E b \in Elements(p) : y' = b /\ x' = sub_assign(x, b, p)
    /\ in0' = x
    /\ pc' = "sub_assign"
    /\ UNCHANGED << p, ret, loc, rounds >>
    /\ UNCHANGED ioVars

MulAssign ==
    /\ Callable
    /\ \E b \in Elements(p) : y' = b /\ x' = mul_assign(x, b, p)
    /\ in0' = x
    /\ pc' = "mul_assign"
    /\ UNCHANGED << p, ret, loc, rounds >>
    /\ UNCHANGED ioVars

ConstMul ==
    /\ Callable
    /\ \E b \in Elements(p) :
          y' = b /\ x' = const_mul(x, b, MODULUS(p), ParamINV(p))
    /\ in0' = x
    /\ pc' = "const_mul"
    /\ UNCHANGED << p, ret, loc, rounds >>
    /\ UNCHANGED ioVars

Neg ==
    /\ Callable
    /\ x' = neg(x, p)
    /\ in0' = x
    /\ pc' = "neg"
    /\ UNCHANGED << p, y, ret, loc, rounds >>
    /\ UNCHANGED ioVars

DoubleInPlace ==
    /\ Callable
    /\ x' = double_in_place(x, p)
    /\ in0' = x
    /\ pc' = "double_in_place"
    /\ UNCHANGED << p, y, ret, loc, rounds >>
    /\ UNCHANGED ioVars

\* inverse(): the zero test, the initialisation and the first loop test
InverseBegin ==
    /\ Callable
    /\ in0' = x
    /\ IF is_zero(x)
       THEN /\ ret' = None
            /\ pc' = "inverse"
            /\ UNCHANGED loc
       ELSE /\ loc' = inv_init(x, p)
            /\ IF inv_running(loc')
               THEN pc' = "inverse_loop" /\ UNCHANGED ret
               ELSE pc' = "inverse" /\ ret' = inv_result(loc')
    /\ UNCHANGED << p, x, y >>
    /\ UNCHANGED ioVars
    /\ rounds' = 0

\* one iteration of `while u.is_even()`
InvHalveU ==
    /\ pc = "inverse_loop"
    /\ big_is_even(loc.u)
    /\ loc' = inv_halve_u(loc, p)
    /\ UNCHANGED << p, x, y, in0, pc, ret >>
    /\ UNCHANGED ioVars
    /\ UNCHANGED rounds

\* one iteration of `while v.is_even()`
InvHalveV ==
    /\ pc = "inverse_loop"
    /\ ~big_is_even(loc.u)
    /\ big_is_even(loc.v)
    /\ loc' = inv_halve_v(loc, p)
    /\ UNCHANGED << p, x, y, in0, pc, ret >>
    /\ UNCHANGED ioVars
    /\ UNCHANGED rounds

\* the subtraction that ends a round, and the loop test that follows it
InvSubtract ==
    /\ pc = "inverse_loop"
    /\ ~big_is_even(loc.u)
    /\ ~big_is_even(loc.v)
    /\ loc' = inv_subtract(loc, p)
    /\ IF inv_running(loc')
       THEN UNCHANGED << pc, ret >>
       ELSE pc' = "inverse" /\ ret' = inv_result(loc')
    /\ UNCHANGED << p, x, y, in0 >>
    /\ UNCHANGED ioVars
    /\ rounds' = rounds + 1

InverseInPlace ==
    /\ Callable
    /\ in0' = x
    /\ LET i == inverse(x, p)
       IN  IF i.tag = "Some"
           THEN x' = i.val /\ ret' = Some(i.val)
           ELSE ret' = None /\ UNCHANGED x
    /\ pc' = "inverse_in_place"
    /\ UNCHANGED << p, y, loc, rounds >>
    /\ UNCHANGED ioVars

\* the divisors tried: zero, one, R^2 and M - 1
Divisors(m) == {zero, one(m), ParamR2(m), BigInt(m - 1)}

\* div takes self by value and returns the quotient
Div ==
    /\ Callable
    /\ in0' = x
    /\ \E b \in Divisors(p) : y' = b /\ ret' = div(x, b, p)
    /\ pc' = "div"
    /\ UNCHANGED << p, x, loc, rounds >>
    /\ UNCHANGED ioVars

\* div_assign stores the quotient in self unless unwrap panics first
DivAssign ==
    /\ Callable
    /\ in0' = x
    /\ \E b \in Divisors(p) :
          /\ y' = b
          /\ LET q == div(x, b, p)
             IN  IF q.tag = "Some"
                 THEN x' = q.val /\ ret' = Unit
                 ELSE ret' = Panic /\ UNCHANGED x
    /\ pc' = "div_assign"
    /\ UNCHANGED << p, loc, rounds >>
    /\ UNCHANGED ioVars

Next ==
    \/ FromRepr
    \/ IntoRepr
    \/ AddAssign
    \/ SubAssign
    \/ MulAssign
    \/ ConstMul
    \/ Neg
    \/ DoubleInPlace
    \/ InverseBegin
    \/ InvHalveU
    \/ InvHalveV
    \/ InvSubtract

Spec == Init /\ [][Next]_vars

\* inversion and division
NextInv ==
    \/ InverseBegin
    \/ InvHalveU
    \/ InvHalveV
    \/ InvSubtract
    \/ InverseInPlace
    \/ Div
    \/ DivAssign

SpecInv == Init /\ [][NextInv]_vars

\* inverse() step by step; a call that has entered the loop keeps executing it
NextInvLoop ==
    \/ InverseBegin
    \/ InvHalveU
    \/ InvHalveV
    \/ InvSubtract

SpecInvLoop ==
    /\ Init
    /\ [][NextInvLoop]_vars
    /\ WF_vars(InvHalveU)
    /\ WF_vars(InvHalveV)
    /\ WF_vars(InvSubtract)

\* ---------------------------------------------------------- codec actions
Bytes == 0 .. (ByteBase - 1)

RECURSIVE ByteStrings(_)
ByteStrings(n) ==
    IF n = 0 THEN {<< >>} ELSE {Append(s, c) : s \in ByteStrings(n - 1), c \in Bytes}

FlagValues == UNION {{[len |-> l, val |-> v] : v \in 0 .. (2 ^ l - 1)} : l \in 0 .. ByteBits}

\* an element to encode and an empty writer, or a reader holding any bytes
InitSer ==
    /\ p \in Moduli
    /\ \/ x \in Elements(p) /\ wire = << >>
       \/ x = zero /\ wire \in UNION {ByteStrings(n) : n \in 0 .. BYTE_SIZE}
    /\ y = zero
    /\ in0 = x
    /\ pc = "ready"
    /\ ret = Unit
    /\ loc = NoLocals
    /\ win = wire
    /\ flg = NoFlags
    /\ prev = "ready"
    /\ str = << >>
    /\ rounds = 0

\* what a reader holds after a read of `asked` bytes; read_exact leaves the
\* position unspecified when the bytes run out
AfterRead(rd, asked) ==
    IF asked <= Len(rd) THEN {SubSeq(rd, asked + 1, Len(rd))} ELSE {rd, << >>}

SerializeWithFlags ==
    /\ Callable
    /\ \E f \in FlagValues :
          LET r == serialize_with_flags(x, f, p)
          IN  flg' = f /\ ret' = r.ret /\ wire' = wire \o r.out
    /\ win' = wire
    /\ prev' = pc
    /\ pc' = "serialize_with_flags"
    /\ UNCHANGED << p, x, y, in0, loc, str, rounds >>

\* serialize: serialize_with_flags with EmptyFlags
Serialize ==
    /\ Callable
    /\ LET r == serialize_with_flags(x, NoFlags, p)
       IN  ret' = r.ret /\ wire' = wire \o r.out
    /\ win' = wire
    /\ prev' = pc
    /\ pc' = "serialize"
    /\ UNCHANGED << p, x, y, in0, loc, flg, str, rounds >>

\* decodes with any flag type, or after an encode with the type just written
DeserializeWithFlags ==
    /\ pc \in {"ready", "serialize_with_flags"}
    /\ \E len \in IF pc = "ready" THEN 0 .. ByteBits ELSE {flg.len} :
          LET r == deserialize_with_flags(wire, len, p)
          IN  /\ flg' = IF pc = "ready" THEN [len |-> len, val |-> 0] ELSE flg
              /\ ret' = r.ret
              /\ wire' \in AfterRead(wire, r.asked)
    /\ win' = wire
    /\ prev' = pc
    /\ pc' = "deserialize_with_flags"
    /\ UNCHANGED << p, x, y, in0, loc, str, rounds >>

Deserialize ==
    /\ pc = "ready"
    /\ LET r == deserialize(wire, p)
       IN  ret' = r.ret /\ wire' \in AfterRead(wire, r.asked)
    /\ win' = wire
    /\ prev' = pc
    /\ pc' = "deserialize"
    /\ UNCHANGED << p, x, y, in0, loc, flg, str, rounds >>

\* FromBytes::read straight from the reader
Read ==
    /\ pc = "ready"
    /\ ret' = IF Len(wire) < BYTE_SIZE THEN Err("IoError")
              ELSE read(SubSeq(wire, 1, BYTE_SIZE), p)
    /\ wire' \in AfterRead(wire, BYTE_SIZE)
    /\ win' = wire
    /\ prev' = pc
    /\ pc' = "read"
    /\ UNCHANGED << p, x, y, in0, loc, flg, str, rounds >>

NextSer ==
    \/ SerializeWithFlags
    \/ Serialize
    \/ DeserializeWithFlags
    \/ Deserialize
    \/ Read

SpecSer == InitSer /\ [][NextSer]_vars

\* ------------------------------------------------------ random bytes
\* any input bytes, from none to one more than the limbs hold
InitRnd ==
    /\ p \in Moduli
    /\ x = zero
    /\ wire \in UNION {ByteStrings(n) : n \in 0 .. (BYTE_SIZE + 1)}
    /\ y = zero
    /\ in0 = x
    /\ pc = "ready"
    /\ ret = Unit
    /\ loc = NoLocals
    /\ win = wire
    /\ flg = NoFlags
    /\ prev = "ready"
    /\ str = << >>
    /\ rounds = 0

\* from_random_bytes_with_flags of the bytes in wire, in either kind of build
FromRandomBytesWithFlags ==
    /\ pc = "ready"
    /\ \E overflow_checks \in BOOLEAN :
          ret' = from_random_bytes_with_flags(wire, p, overflow_checks)
    /\ win' = wire
    /\ prev' = pc
    /\ pc' = "from_random_bytes_with_flags"
    /\ UNCHANGED << p, x, y, in0, loc, wire, flg, str, rounds >>

NextRnd == FromRandomBytesWithFlags

SpecRnd == InitRnd /\ [][NextRnd]_vars

\* --------------------------------------------------------- string actions
MaxStrLen == 2

RECURSIVE DigitStrings(_)
DigitStrings(n) ==
    IF n = 0 THEN {<< >>}
    ELSE {Append(s, DigitChars[d]) : s \in DigitStrings(n - 1), d \in 1 .. 10}

\* a digit string to parse, or an element to display
InitStr ==
    /\ p \in Moduli
    /\ \/ x = zero /\ str \in UNION {DigitStrings(n) : n \in 0 .. MaxStrLen}
       \/ x \in Elements(p) /\ str = << >>
    /\ y = zero
    /\ in0 = x
    /\ pc = "ready"
    /\ ret = Unit
    /\ loc = NoLocals
    /\ wire = << >>
    /\ win = << >>
    /\ flg = NoFlags
    /\ prev = "ready"
    /\ rounds = 0

\* from_str of the text given, or of the text Display has just produced
FromStr ==
    /\ pc \in {"ready", "display"}
    /\ ret' = from_str(str, p)
    /\ prev' = pc
    /\ pc' = "from_str"
    /\ UNCHANGED << p, x, y, in0, loc, wire, win, flg, str, rounds >>

Display ==
    /\ Callable
    /\ str' = display(x, p)
    /\ prev' = pc
    /\ pc' = "display"
    /\ UNCHANGED << p, x, y, in0, ret, loc, wire, win, flg, rounds >>

NextStr ==
    \/ FromStr
    \/ Display

SpecStr == InitStr /\ [][NextStr]_vars

\* ------------------------------------------------------------ references
Val(a) == LimbsValue(a)

\* the inverse of R modulo m
RInv(m) == CHOOSE k \in 1 .. (m - 1) : (k * RModM(m)) % m = 1

Below(a, m) == Val(a) < m

\* the logical integer of a stored value: stored * R^-1 mod M
Logical(a, m) == (Val(a) * RInv(m)) % m

\* the value of little-endian bytes
RECURSIVE BytesValueFrom(_, _)
BytesValueFrom(bs, i) == IF i > Len(bs) THEN 0 ELSE bs[i] + ByteBase * BytesValueFrom(bs, i + 1)

BytesValue(bs) == BytesValueFrom(bs, 1)

\* ceil(bits(M) / byte) and the bits of the top byte that M does not use
CanonicalBytes(m) == (BitLen(m) + ByteBits - 1) \div ByteBits

ReservedBits(m) == ByteBits * CanonicalBytes(m) - BitLen(m)

\* the greatest common divisor
RECURSIVE GCD(_, _)
GCD(a, b) == IF b = 0 THEN a ELSE GCD(b, a % b)

\* the larger of u and v
Larger(s) == IF Val(s.u) > Val(s.v) THEN Val(s.u) ELSE Val(s.v)

\* non-empty, digits only, no leading zero
WellFormed(s) ==
    /\ s # << >>
    /\ \A i \in 1 .. Len(s) : to_digit(s[i]) >= 0
    /\ to_digit(s[1]) # 0

\* the integer a digit string denotes
RECURSIVE DecimalValueUpTo(_, _)
DecimalValueUpTo(s, i) ==
    IF i = 0 THEN 0 ELSE 10 * DecimalValueUpTo(s, i - 1) + to_digit(s[i])

DecimalValue(s) == DecimalValueUpTo(s, Len(s))

\* ------------------------------------------------------------------ claims
\* C1: the stored value is strictly less than the modulus after add_assign,
\* sub_assign, neg, double_in_place, const_mul / mul_assign, a successful
\* from_repr and a successful inverse, and so are the locals b and c after
\* every step of the inversion loop.
StoredValueBelowModulus ==
    /\ pc \in {"add_assign", "sub_assign", "neg", "double_in_place", "const_mul", "mul_assign"}
          => Below(x, p)
    /\ pc = "from_repr" /\ ret.tag = "Some" => Below(ret.val, p)
    /\ pc = "inverse_loop" => Below(loc.b, p) /\ Below(loc.c, p)
    /\ pc = "inverse" /\ ret.tag = "Some" => Below(ret.val, p)

\* C1 witness: an addition whose limb-wise sum reached the modulus
AdditionNeededReduction == pc = "add_assign" /\ Val(in0) + Val(y) >= p

\* C2: const_mul returns exactly (a * b * R^-1) mod M for all operands below M,
\* for every odd prime modulus that fits the limbs.
ConstMulIsMontgomeryProduct ==
    pc = "const_mul" => Val(x) = (Val(in0) * Val(y) * RInv(p)) % p

\* C3: for every nonzero a, inverse(a) is Some(i) with a * i = one() and
\* inverse(i) = Some(a).
InverseIsTwoSided ==
    pc = "inverse" /\ ~is_zero(in0) =>
        /\ ret.tag = "Some"
        /\ mul_assign(in0, ret.val, p) = one(p)
        /\ inverse(ret.val, p) = Some(in0)

\* C4: inversion and division on zero never yield a value: inverse(0) is None
\* and the loop is never entered, inverse_in_place on zero returns None and
\* leaves the element zero, div and div_assign by zero panic and produce no
\* element.
ZeroIsNeverInverted ==
    /\ pc = "inverse" /\ is_zero(in0) => ret = None /\ loc = NoLocals
    /\ pc = "inverse_loop" => ~is_zero(in0)
    /\ pc = "inverse_in_place" /\ is_zero(in0) => ret = None /\ x = zero
    /\ pc \in {"div", "div_assign"} /\ is_zero(y) => ret = Panic /\ x = in0

\* C4 witness: a division of a nonzero element by zero has been attempted
DividedByZero == pc = "div_assign" /\ is_zero(y) /\ ~is_zero(in0)

\* C5: serialize_with_flags with flags that fit the reserved bits writes exactly
\* ceil(bits(M) / byte) bytes, and deserialize_with_flags of those bytes returns
\* the element and the flags.
FlaggedRoundTrip ==
    /\ pc = "serialize_with_flags" /\ flg.len <= ReservedBits(p) =>
          /\ ret.tag = "Ok"
          /\ Len(wire) = Len(win) + CanonicalBytes(p)
          /\ SubSeq(wire, 1, Len(win)) = win
    /\ pc = "deserialize_with_flags" /\ prev = "serialize_with_flags"
          /\ flg.len <= ReservedBits(p) /\ Len(win) = CanonicalBytes(p) =>
          ret = Ok(<< x, flg.val >>)

\* C6: with flags wider than the reserved bits serialize_with_flags returns
\* NotEnoughSpace and the writer is as it was; deserialize_with_flags returns
\* NotEnoughSpace and the reader is as it was.
WideFlagsRejectedUntouched ==
    pc \in {"serialize_with_flags", "deserialize_with_flags"} /\ flg.len > ReservedBits(p) =>
        ret.tag = "NotEnoughSpace" /\ wire = win

\* C6 witness: an encode with flags too wide, on a writer that already held bytes
WideFlagsOnUsedWriter ==
    pc = "serialize_with_flags" /\ flg.len > ReservedBits(p) /\ Len(win) > 0

\* C7: a decoder returns an error when the integer it reconstructs is >= M and
\* an element with that logical value when it is < M; from_repr(r) is None
\* exactly when r >= M.
DecodedAs(n, r, e) ==
    /\ n >= p => r.tag # "Ok"
    /\ n < p => r.tag = "Ok" /\ Logical(e, p) = n

DecodeRejectsOutOfRange ==
    /\ pc = "deserialize" /\ Len(win) >= CanonicalBytes(p) =>
          DecodedAs(BytesValue(SubSeq(win, 1, CanonicalBytes(p))), ret, ret.val)
    /\ pc = "deserialize_with_flags" /\ Len(win) >= CanonicalBytes(p)
          /\ flg.len <= ReservedBits(p) =>
          DecodedAs(BytesValue(SubSeq(win, 1, CanonicalBytes(p)))
                       % 2 ^ (ByteBits * CanonicalBytes(p) - flg.len),
                    ret, ret.val[1])
    /\ pc = "read" /\ Len(win) >= BYTE_SIZE =>
          DecodedAs(BytesValue(SubSeq(win, 1, BYTE_SIZE)), ret, ret.val)

\* C8: from_repr(into_repr(a)) = Some(a) for every element a.
FromReprUndoesIntoRepr ==
    pc = "from_repr" /\ prev = "into_repr" => ret = Some(in0)

ParseUndoesDisplay ==
    pc = "from_str" /\ prev = "display" => ret = Ok(x)

\* C11, its parts: while inverse() runs on a nonzero element, u and v are at
\* least 1 and coprime, and no more than bits(M) outer rounds are completed.
InvLoopState ==
    /\ pc = "inverse_loop" \/ (pc = "inverse" /\ ~is_zero(in0)) =>
          /\ Val(loc.u) >= 1
          /\ Val(loc.v) >= 1
          /\ GCD(Val(loc.u), Val(loc.v)) = 1
          /\ rounds <= BitLen(p)
    /\ pc = "inverse_loop" => ~is_zero(in0) /\ Val(in0) < p

\* a halving makes the halved operand smaller and leaves the other alone; the
\* subtraction that ends a round makes the larger of u and v smaller
InvLoopStep ==
    pc = "inverse_loop" =>
        IF big_is_even(loc.u)
        THEN Val(loc'.u) < Val(loc.u) /\ loc'.v = loc.v
        ELSE IF big_is_even(loc.v)
        THEN Val(loc'.v) < Val(loc.v) /\ loc'.u = loc.u
        ELSE Larger(loc') < Larger(loc) /\ rounds' = rounds + 1

\* C11: for every prime M and every nonzero stored value below M the inversion
\* loop terminates: u and v stay at least 1 and coprime, every halving loop
\* ends, every outer round makes the larger of u and v strictly smaller, and at
\* most bits(M) outer rounds are executed before u = 1 or v = 1.
InversionLoopTerminates ==
    /\ []InvLoopState
    /\ [][InvLoopStep]_vars
    /\ (pc = "inverse_loop" ~> pc = "inverse")

\* C11 witness: an inversion has returned after bits(M) - 1 outer rounds
InversionTookManyRounds ==
    pc = "inverse" /\ ret.tag = "Some" /\ rounds = BitLen(p) - 1 /\ rounds >= 4

\* C12: on stored values below M, add_assign leaves (a + b) mod M, sub_assign
\* (a - b) mod M, neg (M - a) mod M with zero kept, double_in_place 2a mod M,
\* and a + (-a) is zero; the limb-wise add_nocarry and mul2 stay within the
\* limbs and sub_noborrow does not borrow out.
AdditiveOpsMatchReference ==
    /\ pc = "add_assign" =>
          /\ Val(x) = (Val(in0) + Val(y)) % p
          /\ Val(add_nocarry(in0, y)) = Val(in0) + Val(y)
    /\ pc = "sub_assign" =>
          LET lifted == IF big_lt(in0, y) THEN add_nocarry(in0, MODULUS(p)) ELSE in0
          IN  /\ Val(x) = (Val(in0) + p - Val(y)) % p
              /\ big_lt(in0, y) => Val(lifted) = Val(in0) + p
              /\ ~big_lt(lifted, y)
    /\ pc = "neg" =>
          /\ Val(x) = (p - Val(in0)) % p
          /\ add_assign(in0, x, p) = zero
    /\ pc = "double_in_place" =>
          /\ Val(x) = (2 * Val(in0)) % p
          /\ Val(mul2(in0)) = 2 * Val(in0)

\* the input copied into the zero-padded buffer of all limbs, excess bytes dropped
PaddedInput(bs) ==
    IF Len(bs) >= BYTE_SIZE THEN SubSeq(bs, 1, BYTE_SIZE) ELSE bs \o Zeros(BYTE_SIZE - Len(bs))

\* the buffer's integer with the top REPR_SHAVE_BITS bits of the top limb cleared
MaskedInteger(bs, m) == BytesValue(PaddedInput(bs)) % 2 ^ (WordBits * Limbs - REPR_SHAVE_BITS(m))

\* the boundary byte of the top limb, kept to its top (REPR_SHAVE_BITS mod byte) bits
BoundaryFlags(bs, m) ==
    LET byte == PaddedInput(bs)[(Limbs - 1) * BytesPerLimb
                                + (BytesPerLimb - 1) - (REPR_SHAVE_BITS(m) \div ByteBits) + 1]
        kept == 2 ^ (ByteBits - (REPR_SHAVE_BITS(m) % ByteBits))
    IN  (byte \div kept) * kept

\* C13: for every input and every REPR_SHAVE_BITS, multiples of the byte width
\* and zero included, from_random_bytes_with_flags returns Some((e, f)) exactly
\* when the masked integer is below M, with e's logical value that integer and f
\* the top bits of the boundary byte, and None otherwise; no shift overflows.
RandomBytesDecodeMasked ==
    pc = "from_random_bytes_with_flags" =>
        IF MaskedInteger(win, p) < p
        THEN /\ ret.tag = "Some"
             /\ Logical(ret.val[1], p) = MaskedInteger(win, p)
             /\ ret.val[2] = BoundaryFlags(win, p)
        ELSE ret = None
====
